---- MODULE Spec2Model ----
(***************************************************************************)
(* Model of the leonardo anime catalogue front-end.                        *)
(*                                                                         *)
(* Independent state machines are modelled:                                  *)
(*   Spec      the listing controllers: InformationPage without search     *)
(*             (variant "page"), InformationPage with search (variant      *)
(*             "search") and AnimeList under its parent page (variant      *)
(*             "list"); query state, debounce timer, URL synchronisation.  *)
(*   SpecUser  UserProvider, LayoutContent, UserInfoDialog, EditUserButton *)
(*             and useFormValidation: stored profile, loading, dialogs.    *)
(*   SpecLib   calls of the validation library's pure functions.           *)
(*   SpecProvider  UserProvider under arbitrary setUser calls.             *)
(*   SpecView  the listing view of a mounted controller: query result,     *)
(*             detail modal, body scroll lock, timers and unmount.         *)
(*                                                                         *)
(* Strings are sequences of one-character strings.  A React event handler  *)
(* together with the re-render and the passive effects it causes is one    *)
(* action: React flushes a commit's effects before it handles the next     *)
(* event.  Timers and router navigations complete in actions of their own. *)
(***************************************************************************)
EXTENDS Integers, Sequences, FiniteSets

VARIABLES
    \* ---- listing controller ----
    variant,          \* which controller is mounted: "page", "search", "list"
    mounted,          \* the mount effects have run
    searchParams,     \* useSearchParams(): the current URL query, a sequence of <<key, value>>
    pendingNav,       \* router.push calls whose navigation has not landed yet (FIFO)
    lastPush,         \* query written by the router.push of the last action (NoPush: none)
    userActed,        \* a user event (typing, click, navigation) happened since load
    page,             \* useState page
    perPage,          \* useState perPage
    searchTerm,       \* useState searchTerm (typed value)
    debouncedSearch,  \* useState debouncedSearch (effective value)
    debounceTimeout,  \* the pending setTimeout of the debounce effect and what its closure captured
    isInitialized,    \* useRef isInitialized (variant "page")
    lastOp,           \* label of the last handler / callback that ran
    \* ---- user profile, dialogs ----
    storage,          \* localStorage['user-info']: [present, text]
    user,             \* UserProvider useState user (a JSON value)
    isLoading,        \* UserProvider useState isLoading
    isHydrated,       \* useHydration state
    form,             \* useFormValidation state of the two UserInfoDialog instances:
                      \* form.block (LayoutContent's), form.edit (EditUserButton's)
    editMounted,      \* EditUserButton (and its UserInfoDialog) is mounted
    isDialogOpen,     \* EditUserButton useState isDialogOpen
    editing,          \* useState editing of the two UserInfoDialog instances
    savedInfo,        \* the profile last passed to setUser by handleSave
    uOp,              \* label of the last handler that ran
    \* ---- listing view, detail modal, body scroll lock ----
    query,            \* useQuery result of the listing: "loading", "error", "empty", "items"
    selectedAnime,    \* useState selectedAnime (0 stands for null)
    isModalOpen,      \* useState isModalOpen
    clearTimers,      \* pending setTimeout(() => setSelectedAnime(null), 100) callbacks
    scrollLock,       \* the refs and timers of AnimeModal's useBodyScrollLock
    bodyOverflow,     \* document.body.style.overflow
    vOp,              \* label of the last view handler / callback that ran
    \* ---- validation library (calls of its pure functions) ----
    call,             \* the function called last and its arguments
    result            \* what it returned

ctlVars == <<variant, mounted, searchParams, pendingNav, lastPush, userActed, page, perPage,
             searchTerm, debouncedSearch, debounceTimeout, isInitialized, lastOp>>
userVars == <<storage, user, isLoading, isHydrated, form, editMounted,
              isDialogOpen, editing, savedInfo, uOp>>
viewVars == <<query, selectedAnime, isModalOpen, clearTimers, scrollLock, bodyOverflow, vOp>>
libVars == <<call, result>>
vars == <<ctlVars, userVars, viewVars, libVars>>

(***************************************************************************)
(* Bounds of the model.                                                    *)
(***************************************************************************)
MaxPage == 3          \* highest page a pagination control offers
MaxLen == 3           \* longest typed search value
MaxPending == 2       \* router.push calls in flight at once
MaxClearTimers == 2   \* selection-clear timeouts pending at once

(***************************************************************************)
(* JavaScript numbers and strings.                                         *)
(***************************************************************************)
\* NaN, the result of parseInt on a text without leading digits, is encoded
\* as an integer no page or page size can take; Gt, StrictNe, Plus and
\* MathMax give comparisons and arithmetic their IEEE results on it.
NaN == -1000000

Digits == <<"0", "1", "2", "3", "4", "5", "6", "7", "8", "9">>

IsDigit(c) == \E i \in 1..10 : Digits[i] = c

DigitVal(c) == (CHOOSE i \in 1..10 : Digits[i] = c) - 1

RECURSIVE StripLeadingSpace(_)
StripLeadingSpace(s) ==
    IF s # <<>> /\ Head(s) = " " THEN StripLeadingSpace(Tail(s)) ELSE s

RECURSIVE DigitPrefix(_)
DigitPrefix(s) ==
    IF s # <<>> /\ IsDigit(Head(s)) THEN <<Head(s)>> \o DigitPrefix(Tail(s)) ELSE <<>>

RECURSIVE DigitsValue(_)
DigitsValue(d) ==
    IF d = <<>> THEN 0
    ELSE 10 * DigitsValue(SubSeq(d, 1, Len(d) - 1)) + DigitVal(d[Len(d)])

\* parseInt(text): leading white space is skipped, an optional sign is read,
\* then the longest run of decimal digits; NaN when there is none.
parseInt(s) ==
    LET t == StripLeadingSpace(s)
        signed == t # <<>> /\ Head(t) \in {"-", "+"}
        neg == t # <<>> /\ Head(t) = "-"
        d == DigitPrefix(IF signed THEN Tail(t) ELSE t)
    IN  IF d = <<>> THEN NaN
        ELSE IF neg THEN 0 - DigitsValue(d) ELSE DigitsValue(d)

RECURSIVE natToString(_)
natToString(n) ==
    IF n < 10 THEN <<Digits[n + 1]>>
    ELSE natToString(n \div 10) \o <<Digits[(n % 10) + 1]>>

\* Number.prototype.toString()
toString(n) ==
    IF n = NaN THEN <<"N", "a", "N">>
    ELSE IF n < 0 THEN <<"-">> \o natToString(0 - n)
    ELSE natToString(n)

\* a > b
Gt(a, b) == a # NaN /\ b # NaN /\ a > b

\* a !== b on numbers: NaN differs from everything, itself included
StrictNe(a, b) == a = NaN \/ b = NaN \/ a # b

\* Object.is(a, b) on numbers, the test React uses to skip a state update
SameState(a, b) == a = b

\* a + b
Plus(a, b) == IF a = NaN \/ b = NaN THEN NaN ELSE a + b

\* Math.max(a, b)
MathMax(a, b) == IF a = NaN \/ b = NaN THEN NaN ELSE IF a > b THEN a ELSE b

(***************************************************************************)
(* URLSearchParams: an ordered list of <<key, value>> pairs.               *)
(***************************************************************************)
\* searchParams.get(key) || dflt : the first value of key, dflt when the key
\* is absent or its value is empty.
GetOr(params, key, dflt) ==
    LET idx == {i \in 1..Len(params) : params[i][1] = key}
    IN  IF idx = {} THEN dflt
        ELSE LET v == params[CHOOSE i \in idx : \A j \in idx : i <= j][2]
             IN  IF v = <<>> THEN dflt ELSE v

HasKey(params, key) == \E i \in 1..Len(params) : params[i][1] = key

\* The query written by the URL effect of InformationPage (no search):
\* page when page > 1, perPage when perPage !== 12.
BuildParamsPage(p, pp) ==
    (IF Gt(p, 1) THEN << <<"page", toString(p)>> >> ELSE <<>>)
    \o (IF StrictNe(pp, 12) THEN << <<"perPage", toString(pp)>> >> ELSE <<>>)

\* The query written by the search variant's URL effect and by updateURL of
\* AnimeList: page when > 1, search when non-empty, perPage when !== 12.
updateURL(newPage, newSearch, newPerPage) ==
    (IF Gt(newPage, 1) THEN << <<"page", toString(newPage)>> >> ELSE <<>>)
    \o (IF newSearch # <<>> THEN << <<"search", newSearch>> >> ELSE <<>>)
    \o (IF StrictNe(newPerPage, 12) THEN << <<"perPage", toString(newPerPage)>> >> ELSE <<>>)

(***************************************************************************)
(* Inputs of the listing controllers.                                      *)
(***************************************************************************)
Variants == {"page", "search", "list"}

HasSearch == variant \in {"search", "list"}

\* Values of the page, perPage and search query parameters a page is loaded
\* with (<<>>: parameter absent).
PageRaw == {<<>>, <<"3">>, <<"0">>, <<"x">>}

PerPageRaw == {<<>>, <<"2", "4">>, <<"7">>}

SearchRaw == {<<>>, <<"n", "a">>, <<"n", "a", "n">>}

SearchAlphabet == {"a", "n"}

\* The texts a keystroke, a paste or the clear button leaves in the input:
\* one letter repeated 0..MaxLen times.
SearchValues == {[i \in 1..n |-> c] : c \in SearchAlphabet, n \in 0..MaxLen}

\* The <option> values of the items-per-page <select>.
PerPageOptions == {<<"6">>, <<"1", "2">>, <<"2", "4">>, <<"4", "8">>}

\* A query string ?page=..&search=..&perPage=.. with absent parameters left out.
MakeURL(p, s, pp) ==
    (IF p # <<>> THEN << <<"page", p>> >> ELSE <<>>)
    \o (IF s # <<>> THEN << <<"search", s>> >> ELSE <<>>)
    \o (IF pp # <<>> THEN << <<"perPage", pp>> >> ELSE <<>>)

LoadURLs(v) ==
    {MakeURL(p, s, pp) : p \in PageRaw, pp \in PerPageRaw,
                         s \in IF v = "page" THEN {<<>>} ELSE SearchRaw}

NoTimer == [pending |-> FALSE, term |-> <<>>, perPage |-> 0]

NoPush == << <<"none", <<>>>> >>

\* const initialPage = parseInt(searchParams.get('page') || '1')
initialPage(params) == parseInt(GetOr(params, "page", <<"1">>))

\* const initialPerPage = parseInt(searchParams.get('perPage') || '12')
initialPerPage(params) == parseInt(GetOr(params, "perPage", <<"1", "2">>))

\* const initialSearch = searchParams.get('search') || ''
initialSearch(params) == GetOr(params, "search", <<>>)

\* The variables of the useQuery call of the current render.
QueryVariables == [search |-> debouncedSearch, page |-> page, perPage |-> perPage]

(***************************************************************************)
(* Idle values of the profile variables while the controllers run.         *)
(***************************************************************************)
JNull == [kind |-> "null"]

\* The refs of useBodyScrollLock before its first effect; atMount records
\* document.body.style.overflow at the hook's (last) mount, "never" before it.
NoScrollLock ==
    [mounted |-> FALSE, isLocked |-> FALSE, originalOverflow |-> "", lockCount |-> 0,
     isInitialized |-> FALSE, hasLock |-> FALSE, fallback10 |-> FALSE, fallback100 |-> FALSE,
     atMount |-> "never"]

\* The listing view of a controller that is not rendered.
ViewIdle ==
    /\ query = "loading"
    /\ selectedAnime = 0
    /\ isModalOpen = FALSE
    /\ clearTimers = 0
    /\ scrollLock = NoScrollLock
    /\ bodyOverflow = ""
    /\ vOp = "idle"

\* No library function has been called.
LibIdle ==
    /\ call = [fn |-> "none"]
    /\ result = <<>>

\* useFormValidation(initialData): data, touched = {} (no field touched),
\* validationResults = {} until the validation effect has run.
useFormValidation(initialData) ==
    [data |-> initialData,
     touched |-> [username |-> FALSE, jobTitle |-> FALSE],
     validationResults |-> <<>>]

EmptyForm == useFormValidation([username |-> <<>>, jobTitle |-> <<>>])

removeItem == [present |-> FALSE, text |-> <<>>]

setItem(text) == [present |-> TRUE, text |-> text]

UserIdle ==
    /\ storage = removeItem
    /\ user = JNull
    /\ isLoading = TRUE
    /\ isHydrated = FALSE
    /\ form = [block |-> EmptyForm, edit |-> EmptyForm]
    /\ editMounted = FALSE
    /\ isDialogOpen = FALSE
    /\ editing = [block |-> FALSE, edit |-> FALSE]
    /\ savedInfo = JNull
    /\ uOp = "idle"

(***************************************************************************)
(* Listing controllers: state of the first render.                         *)
(***************************************************************************)
CtlInit ==
    /\ variant \in Variants
    /\ searchParams \in LoadURLs(variant)
    /\ mounted = FALSE
    /\ pendingNav = <<>>
    /\ lastPush = NoPush
    /\ userActed = FALSE
    /\ page = initialPage(searchParams)
    /\ perPage = initialPerPage(searchParams)
    /\ searchTerm = (IF HasSearch THEN initialSearch(searchParams) ELSE <<>>)
    /\ debouncedSearch = (IF HasSearch THEN initialSearch(searchParams) ELSE <<>>)
    /\ debounceTimeout = NoTimer
    /\ isInitialized = FALSE
    /\ lastOp = "render"

\* router.push(url).  Only InformationPage without search reads
\* useSearchParams() after its first render, so only its navigations are
\* kept until they land; the search variants' pushes are recorded in lastPush.
RouterPush(url) ==
    /\ lastPush' = url
    /\ pendingNav' = (IF variant = "page" THEN Append(pendingNav, url) ELSE pendingNav)

NoRouterPush == lastPush' = NoPush /\ UNCHANGED pendingNav

CanPush == variant = "page" => Len(pendingNav) < MaxPending

(***************************************************************************)
(* InformationPage without search (src/app/information/page.tsx).          *)
(***************************************************************************)
\* The "sync state with URL parameters" effect: the value setPage / setPerPage
\* leaves in the state.
SyncedPage(params, p) ==
    LET currentPage == parseInt(GetOr(params, "page", <<"1">>))
    IN  IF StrictNe(currentPage, p) THEN currentPage ELSE p

SyncedPerPage(params, pp) ==
    LET currentPerPage == parseInt(GetOr(params, "perPage", <<"1", "2">>))
    IN  IF StrictNe(currentPerPage, pp) THEN currentPerPage ELSE pp

\* Mount effects, in declaration order: initialise (state already holds the
\* URL values, the ref is set), sync (nothing differs), update URL.
MountPage ==
    /\ variant = "page" /\ ~mounted
    /\ mounted' = TRUE
    /\ isInitialized' = TRUE
    /\ page' = SyncedPage(searchParams, page)
    /\ perPage' = SyncedPerPage(searchParams, perPage)
    /\ RouterPush(BuildParamsPage(page', perPage'))
    /\ lastOp' = "mount"
    /\ UNCHANGED userActed
    /\ UNCHANGED <<viewVars, libVars, userVars, variant, searchParams, searchTerm, debouncedSearch, debounceTimeout>>

\* The URL effect after a render in which page or perPage changed.
UrlEffectPage ==
    IF SameState(page', page) /\ SameState(perPage', perPage)
    THEN NoRouterPush
    ELSE RouterPush(BuildParamsPage(page', perPage'))

handlePageChange(newPage) ==
    /\ variant = "page" /\ mounted /\ CanPush
    /\ page' = newPage
    /\ UNCHANGED perPage
    /\ UrlEffectPage
    /\ lastOp' = "pageChange"
    /\ userActed' = TRUE
    /\ UNCHANGED <<viewVars, libVars, userVars, variant, mounted, searchParams, searchTerm, debouncedSearch,
                   debounceTimeout, isInitialized>>

handlePerPageChangePage(value) ==
    /\ variant = "page" /\ mounted /\ CanPush
    /\ perPage' = parseInt(value)
    /\ page' = 1
    /\ UrlEffectPage
    /\ lastOp' = "perPageChange"
    /\ userActed' = TRUE
    /\ UNCHANGED <<viewVars, libVars, userVars, variant, mounted, searchParams, searchTerm, debouncedSearch,
                   debounceTimeout, isInitialized>>

\* A pushed navigation lands: useSearchParams() returns the pushed query, the
\* sync effect runs, and the URL effect runs if it changed the state.
NavComplete ==
    /\ variant = "page" /\ mounted /\ pendingNav # <<>>
    /\ searchParams' = Head(pendingNav)
    /\ page' = SyncedPage(searchParams', page)
    /\ perPage' = SyncedPerPage(searchParams', perPage)
    /\ IF SameState(page', page) /\ SameState(perPage', perPage)
       THEN /\ pendingNav' = Tail(pendingNav)
            /\ lastPush' = NoPush
       ELSE /\ pendingNav' = Append(Tail(pendingNav), BuildParamsPage(page', perPage'))
            /\ lastPush' = BuildParamsPage(page', perPage')
    /\ lastOp' = "navComplete"
    /\ UNCHANGED userActed
    /\ UNCHANGED <<viewVars, libVars, userVars, variant, mounted, searchTerm, debouncedSearch, debounceTimeout,
                   isInitialized>>

\* Back / forward navigation or an edited address bar: the URL changes
\* without a push of the controller.
UrlChange(url) ==
    /\ variant = "page" /\ mounted /\ CanPush
    /\ url # searchParams
    /\ searchParams' = url
    /\ page' = SyncedPage(url, page)
    /\ perPage' = SyncedPerPage(url, perPage)
    /\ UrlEffectPage
    /\ lastOp' = "urlChange"
    /\ userActed' = TRUE
    /\ UNCHANGED <<viewVars, libVars, userVars, variant, mounted, searchTerm, debouncedSearch, debounceTimeout,
                   isInitialized>>

(***************************************************************************)
(* InformationPage with search (src/unnamed/part_006).                     *)
(***************************************************************************)
\* A debounce effect that leaves a pending timer running instead of clearing it.
ArmSearchKeepsPending(term) ==
    IF debounceTimeout.pending THEN debounceTimeout
    ELSE [pending |-> TRUE, term |-> term, perPage |-> 0]

\* The debounce effect (re)arms the timer; its closure captures searchTerm.
ArmSearch(term) == [pending |-> TRUE, term |-> term, perPage |-> 0]

\* The URL effect after a render in which searchTerm, perPage or page changed.
UrlEffectSearch ==
    IF searchTerm' = searchTerm /\ SameState(perPage', perPage) /\ SameState(page', page)
    THEN NoRouterPush
    ELSE RouterPush(updateURL(page', searchTerm', perPage'))

\* Mount effects: the debounce effect arms the timer, the URL effect pushes.
MountSearch ==
    /\ variant = "search" /\ ~mounted
    /\ mounted' = TRUE
    /\ debounceTimeout' = ArmSearch(searchTerm)
    /\ RouterPush(updateURL(page, searchTerm, perPage))
    /\ lastOp' = "mount"
    /\ UNCHANGED userActed
    /\ UNCHANGED <<viewVars, libVars, userVars, variant, searchParams, page, perPage, searchTerm, debouncedSearch,
                   isInitialized>>

\* onChange={(e) => setSearchTerm(e.target.value)} and the clear button.
setSearchTerm(value) ==
    /\ variant = "search" /\ mounted
    /\ value # searchTerm
    /\ searchTerm' = value
    /\ debounceTimeout' = ArmSearch(value)
    /\ UNCHANGED <<page, perPage>>
    /\ UrlEffectSearch
    /\ lastOp' = "type"
    /\ userActed' = TRUE
    /\ UNCHANGED <<viewVars, libVars, userVars, variant, mounted, searchParams, debouncedSearch, isInitialized>>

\* The timer callback of the debounce effect, 400 ms after the last change.
DebounceFireSearch ==
    /\ variant = "search" /\ mounted
    /\ debounceTimeout.pending
    /\ debounceTimeout' = NoTimer
    /\ IF Len(debounceTimeout.term) = 0 \/ Len(debounceTimeout.term) >= 3
       THEN /\ debouncedSearch' = debounceTimeout.term
            /\ page' = 1
            /\ lastOp' = "commit"
       ELSE /\ UNCHANGED <<debouncedSearch, page>>
            /\ lastOp' = "noCommit"
    /\ UNCHANGED <<searchTerm, perPage>>
    /\ UrlEffectSearch
    /\ UNCHANGED <<viewVars, libVars, userVars, variant, mounted, searchParams, isInitialized, userActed>>

\* onPageChange={(e) => setPage(e.page)} of the pagination control.
setPage(newPage) ==
    /\ variant = "search" /\ mounted
    /\ page' = newPage
    /\ UNCHANGED <<searchTerm, perPage>>
    /\ UrlEffectSearch
    /\ lastOp' = "pageChange"
    /\ userActed' = TRUE
    /\ UNCHANGED <<viewVars, libVars, userVars, variant, mounted, searchParams, debouncedSearch, debounceTimeout,
                   isInitialized>>

handlePerPageChangeSearch(value) ==
    /\ variant = "search" /\ mounted
    /\ perPage' = parseInt(value)
    /\ page' = 1
    /\ UNCHANGED searchTerm
    /\ UrlEffectSearch
    /\ lastOp' = "perPageChange"
    /\ userActed' = TRUE
    /\ UNCHANGED <<viewVars, libVars, userVars, variant, mounted, searchParams, debouncedSearch, debounceTimeout,
                   isInitialized>>

(***************************************************************************)
(* AnimeList (src/components/AnimeList.tsx) under the InformationPage of   *)
(* src/app/information/page.metadata.ts, which passes initialPage,         *)
(* initialSearch and initialPerPage parsed from the URL.                   *)
(***************************************************************************)
\* The debounce effect's closure captures searchTerm and perPage.
ArmList(term, pp) == [pending |-> TRUE, term |-> term, perPage |-> pp]

\* Mount effects: the debounce effect arms the timer; the mount effect sets
\* searchTerm and debouncedSearch from the URL.
MountList ==
    /\ variant = "list" /\ ~mounted
    /\ mounted' = TRUE
    /\ searchTerm' = GetOr(searchParams, "search", <<>>)
    /\ debouncedSearch' = GetOr(searchParams, "search", <<>>)
    /\ debounceTimeout' = ArmList(searchTerm', perPage)
    /\ NoRouterPush
    /\ lastOp' = "mount"
    /\ UNCHANGED userActed
    /\ UNCHANGED <<viewVars, libVars, userVars, variant, searchParams, page, perPage, isInitialized>>

handleSearch(value) ==
    /\ variant = "list" /\ mounted
    /\ value # searchTerm
    /\ searchTerm' = value
    /\ page' = 1
    /\ debounceTimeout' = ArmList(value, perPage)
    /\ NoRouterPush
    /\ lastOp' = "type"
    /\ userActed' = TRUE
    /\ UNCHANGED <<viewVars, libVars, userVars, variant, mounted, searchParams, perPage, debouncedSearch, isInitialized>>

\* The timer callback: commits the captured term and rewrites the URL with
\* page 1; the page state is not set.
DebounceFireList ==
    /\ variant = "list" /\ mounted
    /\ debounceTimeout.pending
    /\ debounceTimeout' = NoTimer
    /\ IF Len(debounceTimeout.term) = 0 \/ Len(debounceTimeout.term) >= 3
       THEN /\ debouncedSearch' = debounceTimeout.term
            /\ RouterPush(updateURL(1, debounceTimeout.term, debounceTimeout.perPage))
            /\ lastOp' = "commit"
       ELSE /\ UNCHANGED debouncedSearch
            /\ NoRouterPush
            /\ lastOp' = "noCommit"
    /\ UNCHANGED <<viewVars, libVars, userVars, variant, mounted, searchParams, page, perPage, searchTerm,
                   isInitialized, userActed>>

\* The Next button (rendered enabled while the fetched page is full).
handleNextPage ==
    /\ variant = "list" /\ mounted
    /\ Plus(page, 1) <= MaxPage
    /\ page' = Plus(page, 1)
    /\ RouterPush(updateURL(page', searchTerm, perPage))
    /\ lastOp' = "pageChange"
    /\ userActed' = TRUE
    /\ UNCHANGED <<viewVars, libVars, userVars, variant, mounted, searchParams, perPage, searchTerm, debouncedSearch,
                   debounceTimeout, isInitialized>>

\* The Previous button, disabled={page === 1}.
handlePrevPage ==
    /\ variant = "list" /\ mounted
    /\ page # 1
    /\ page' = MathMax(1, Plus(page, -1))
    /\ RouterPush(updateURL(page', searchTerm, perPage))
    /\ lastOp' = "pageChange"
    /\ userActed' = TRUE
    /\ UNCHANGED <<viewVars, libVars, userVars, variant, mounted, searchParams, perPage, searchTerm, debouncedSearch,
                   debounceTimeout, isInitialized>>

\* handlePerPageChange of AnimeList without its setPage(1): the page is kept.
handlePerPageChangeKeepsPage(value) ==
    /\ variant = "list" /\ mounted
    /\ perPage' = parseInt(value)
    /\ UNCHANGED page
    /\ RouterPush(updateURL(page, searchTerm, perPage'))
    /\ debounceTimeout' = (IF SameState(perPage', perPage) THEN debounceTimeout
                           ELSE ArmList(searchTerm, perPage'))
    /\ lastOp' = "perPageChange"
    /\ userActed' = TRUE
    /\ UNCHANGED <<viewVars, libVars, userVars, variant, mounted, searchParams, searchTerm, debouncedSearch, isInitialized>>

\* perPage is a dependency of the debounce effect: a changed value re-arms it.
handlePerPageChangeList(value) ==
    /\ variant = "list" /\ mounted
    /\ perPage' = parseInt(value)
    /\ page' = 1
    /\ RouterPush(updateURL(1, searchTerm, perPage'))
    /\ debounceTimeout' = (IF SameState(perPage', perPage) THEN debounceTimeout
                           ELSE ArmList(searchTerm, perPage'))
    /\ lastOp' = "perPageChange"
    /\ userActed' = TRUE
    /\ UNCHANGED <<viewVars, libVars, userVars, variant, mounted, searchParams, searchTerm, debouncedSearch, isInitialized>>

(***************************************************************************)
(* The listing controllers' specification.                                 *)
(***************************************************************************)
Mount == MountPage \/ MountSearch \/ MountList

TypeSearch == \E value \in SearchValues : setSearchTerm(value) \/ handleSearch(value)

DebounceFire == DebounceFireSearch \/ DebounceFireList

PageChange ==
    \/ \E newPage \in 1..MaxPage : handlePageChange(newPage) \/ setPage(newPage)
    \/ handleNextPage
    \/ handlePrevPage

handlePerPageChange ==
    \E value \in PerPageOptions :
        \/ handlePerPageChangePage(value)
        \/ handlePerPageChangeSearch(value)
        \/ handlePerPageChangeList(value)

Navigation == NavComplete \/ \E url \in LoadURLs("page") : UrlChange(url)

CtlNext == Mount \/ TypeSearch \/ DebounceFire \/ PageChange \/ handlePerPageChange \/ Navigation

Init == CtlInit /\ UserIdle /\ ViewIdle /\ LibIdle

Next == CtlNext

Spec == Init /\ [][Next]_vars

\* The router completes a navigation it has started: a pushed URL cannot stay
\* pending for ever.
SpecFair == Init /\ [][Next]_vars /\ WF_vars(NavComplete)

(***************************************************************************)
(* Validation engine (src/unnamed/part_011, lib/validation).               *)
(***************************************************************************)
Letters ==
    {"a", "b", "c", "d", "e", "f", "g", "h", "i", "j", "k", "l", "m",
     "n", "o", "p", "q", "r", "s", "t", "u", "v", "w", "x", "y", "z",
     "A", "B", "C", "D", "E", "F", "G", "H", "I", "J", "K", "L", "M",
     "N", "O", "P", "Q", "R", "S", "T", "U", "V", "W", "X", "Y", "Z"}

WhiteSpace == {" ", "\t", "\n", "\r"}

RECURSIVE TrimStart(_)
TrimStart(s) == IF s # <<>> /\ Head(s) \in WhiteSpace THEN TrimStart(Tail(s)) ELSE s

RECURSIVE TrimEnd(_)
TrimEnd(s) ==
    IF s # <<>> /\ s[Len(s)] \in WhiteSpace THEN TrimEnd(SubSeq(s, 1, Len(s) - 1)) ELSE s

\* String.prototype.trim()
trim(s) == TrimEnd(TrimStart(s))

\* VALIDATION_PATTERNS.USERNAME.test(s): /^[a-zA-Z0-9_-]{3,20}$/
TestUSERNAME(s) ==
    /\ Len(s) >= 3
    /\ Len(s) <= 20
    /\ \A i \in 1..Len(s) : s[i] \in Letters \/ IsDigit(s[i]) \/ s[i] \in {"_", "-"}

\* VALIDATION_PATTERNS.JOB_TITLE.test(s): /^[A-Za-z\s]+$/
TestJOB_TITLE(s) ==
    /\ Len(s) >= 1
    /\ \A i \in 1..Len(s) : s[i] \in Letters \/ s[i] \in WhiteSpace

PatternTest(pattern, s) ==
    CASE pattern = "USERNAME" -> TestUSERNAME(s)
      [] pattern = "JOB_TITLE" -> TestJOB_TITLE(s)

ERROR_REQUIRED == <<"This field is required">>

ERROR_MIN_LENGTH(min) == <<"Must be at least ", min, " characters">>

ERROR_MAX_LENGTH(max) == <<"Must be no more than ", max, " characters">>

ERROR_INVALID_USERNAME ==
    <<"Username must be 3-20 characters and contain only letters, numbers, underscores, and hyphens">>

ERROR_INVALID_JOB_TITLE == <<"Job title must contain only letters and spaces">>

ERROR_INVALID_FORMAT == <<"Invalid format">>

\* Variants of validateField that each drop one property of it:
\*   "noShortCircuit"  a blank required value is checked against the other rules too,
\*   "checkBlank"      a blank optional value is checked against the rules,
\*   "firstOnly"       only the first violated rule is reported,
\*   "generic"         a pattern violation is always reported as 'Invalid format'.
validateFieldVariant(value, rules, fieldName, kind) ==
    LET blank == value = <<>> \/ trim(value) = <<>>
        trimmedValue == trim(value)
        e0 == IF rules.required /\ blank THEN <<ERROR_REQUIRED>> ELSE <<>>
        e1 == IF rules.minLength # 0 /\ Len(trimmedValue) < rules.minLength
              THEN <<ERROR_MIN_LENGTH(rules.minLength)>> ELSE <<>>
        e2 == IF rules.maxLength # 0 /\ Len(trimmedValue) > rules.maxLength
              THEN <<ERROR_MAX_LENGTH(rules.maxLength)>> ELSE <<>>
        e3 == IF rules.pattern # "none" /\ ~PatternTest(rules.pattern, trimmedValue)
              THEN IF kind = "generic" THEN <<ERROR_INVALID_FORMAT>>
                   ELSE IF fieldName = "username" THEN <<ERROR_INVALID_USERNAME>>
                   ELSE IF fieldName = "jobTitle" THEN <<ERROR_INVALID_JOB_TITLE>>
                   ELSE <<ERROR_INVALID_FORMAT>>
              ELSE <<>>
        all == e1 \o e2 \o e3
        errors == IF rules.required /\ blank
                  THEN IF kind = "noShortCircuit" THEN e0 \o all ELSE e0
                  ELSE IF blank
                  THEN IF kind = "checkBlank" THEN all ELSE <<>>
                  ELSE IF kind = "firstOnly" /\ all # <<>> THEN <<Head(all)>>
                  ELSE all
    IN  [isValid |-> Len(errors) = 0, errors |-> errors]

validateFieldNoShortCircuit(value, rules, fieldName) ==
    validateFieldVariant(value, rules, fieldName, "noShortCircuit")

validateFieldChecksBlank(value, rules, fieldName) ==
    validateFieldVariant(value, rules, fieldName, "checkBlank")

validateFieldFirstErrorOnly(value, rules, fieldName) ==
    validateFieldVariant(value, rules, fieldName, "firstOnly")

validateFieldGenericMessage(value, rules, fieldName) ==
    validateFieldVariant(value, rules, fieldName, "generic")

\* A rule set: minLength / maxLength 0 and pattern "none" stand for an
\* absent rule (the code tests them for truthiness).
validateField(value, rules, fieldName) ==
    IF rules.required /\ (value = <<>> \/ trim(value) = <<>>)
    THEN [isValid |-> FALSE, errors |-> <<ERROR_REQUIRED>>]
    ELSE IF value = <<>> \/ trim(value) = <<>>
    THEN [isValid |-> TRUE, errors |-> <<>>]
    ELSE
        LET trimmedValue == trim(value)
            e1 == IF rules.minLength # 0 /\ Len(trimmedValue) < rules.minLength
                  THEN <<ERROR_MIN_LENGTH(rules.minLength)>> ELSE <<>>
            e2 == IF rules.maxLength # 0 /\ Len(trimmedValue) > rules.maxLength
                  THEN <<ERROR_MAX_LENGTH(rules.maxLength)>> ELSE <<>>
            e3 == IF rules.pattern # "none" /\ ~PatternTest(rules.pattern, trimmedValue)
                  THEN IF fieldName = "username" THEN <<ERROR_INVALID_USERNAME>>
                       ELSE IF fieldName = "jobTitle" THEN <<ERROR_INVALID_JOB_TITLE>>
                       ELSE <<ERROR_INVALID_FORMAT>>
                  ELSE <<>>
            errors == e1 \o e2 \o e3
        IN  [isValid |-> Len(errors) = 0, errors |-> errors]

VALIDATION_SCHEMA ==
    [username |-> [required |-> TRUE, minLength |-> 3, maxLength |-> 20, pattern |-> "USERNAME"],
     jobTitle |-> [required |-> TRUE, minLength |-> 2, maxLength |-> 50, pattern |-> "JOB_TITLE"]]

validateForm(data) ==
    [username |-> validateField(data.username, VALIDATION_SCHEMA.username, "username"),
     jobTitle |-> validateField(data.jobTitle, VALIDATION_SCHEMA.jobTitle, "jobTitle")]

\* Object.values(validationResults).every(result => result.isValid); the
\* initial validationResults of useFormValidation is the empty object.
isFormValid(validationResults) ==
    \A f \in DOMAIN validationResults : validationResults[f].isValid

\* getFormErrors that lists the job-title errors first.
getFormErrorsJobTitleFirst(validationResults) ==
    IF DOMAIN validationResults = {} THEN <<>>
    ELSE validationResults.jobTitle.errors \o validationResults.username.errors

\* Object.values(validationResults).flatMap(result => result.errors)
getFormErrors(validationResults) ==
    IF DOMAIN validationResults = {} THEN <<>>
    ELSE validationResults.username.errors \o validationResults.jobTitle.errors

(***************************************************************************)
(* JSON.stringify / JSON.parse on the values the profile store meets:      *)
(* null, non-negative integers, strings, objects.  Texts carry no white    *)
(* space, and of the string escapes only \" and \\ occur.                  *)
(***************************************************************************)
JString(str) == [kind |-> "string", str |-> str]

JNumber(n) == [kind |-> "number", num |-> n]

JObject(members) == [kind |-> "object", members |-> members]

\* The object { username, job } built by handleSave.
UserInfo(username, job) ==
    JObject(<< <<<<"u", "s", "e", "r", "n", "a", "m", "e">>, JString(username)>>,
               <<<<"j", "o", "b">>, JString(job)>> >>)

\* v.<key> for a JSON value (undefined for a missing property or a primitive
\* is returned as JNull).
Property(v, key) ==
    IF v.kind # "object" THEN JNull
    ELSE LET idx == {i \in 1..Len(v.members) : v.members[i][1] = key}
         IN  IF idx = {} THEN JNull
             ELSE v.members[CHOOSE i \in idx : \A j \in idx : i >= j][2]

\* !!v
Truthy(v) ==
    CASE v.kind = "null" -> FALSE
      [] v.kind = "number" -> v.num # 0
      [] v.kind = "string" -> v.str # <<>>
      [] v.kind = "object" -> TRUE

RECURSIVE EscapeString(_)
EscapeString(str) ==
    IF str = <<>> THEN <<>>
    ELSE (IF Head(str) \in {"\"", "\\"} THEN <<"\\", Head(str)>> ELSE <<Head(str)>>)
         \o EscapeString(Tail(str))

Quote(str) == <<"\"">> \o EscapeString(str) \o <<"\"">>

RECURSIVE JSONStringify(_)
RECURSIVE StringifyMembers(_)
StringifyMembers(members) ==
    IF members = <<>> THEN <<>>
    ELSE Quote(Head(members)[1]) \o <<":">> \o JSONStringify(Head(members)[2])
         \o (IF Tail(members) = <<>> THEN <<>> ELSE <<",">> \o StringifyMembers(Tail(members)))

JSONStringify(v) ==
    CASE v.kind = "null" -> <<"n", "u", "l", "l">>
      [] v.kind = "number" -> toString(v.num)
      [] v.kind = "string" -> Quote(v.str)
      [] v.kind = "object" -> <<"{">> \o StringifyMembers(v.members) \o <<"}">>

ParseError == [ok |-> FALSE, val |-> JNull, rest |-> <<>>]

\* The characters of a string literal after its opening quote.  (The result
\* of the recursive call is used once, through EXCEPT: TLC then evaluates the
\* scan in linear time also inside ENABLED.)
RECURSIVE ParseStringBody(_)
ParseStringBody(s) ==
    IF s = <<>> THEN [ok |-> FALSE, str |-> <<>>, rest |-> <<>>]
    ELSE IF Head(s) = "\"" THEN [ok |-> TRUE, str |-> <<>>, rest |-> Tail(s)]
    ELSE IF Head(s) = "\\"
    THEN IF Len(s) >= 2 /\ s[2] \in {"\"", "\\"}
         THEN [ParseStringBody(SubSeq(s, 3, Len(s))) EXCEPT !.str = <<s[2]>> \o @]
         ELSE [ok |-> FALSE, str |-> <<>>, rest |-> <<>>]
    ELSE [ParseStringBody(Tail(s)) EXCEPT !.str = <<Head(s)>> \o @]

\* F applied to the value of x.  x is evaluated once and bound, so that a
\* recursive result used several times is not recomputed at each use (TLC
\* recomputes LET definitions inside ENABLED).
Eval(x, F(_)) == CHOOSE res \in {F(val) : val \in {x}} : TRUE

NoMembers == [ok |-> FALSE, members |-> <<>>, rest |-> <<>>]

RECURSIVE ParseValue(_)
RECURSIVE ParseMembers(_)
\* The members of an object after its opening brace or after a comma.
ParseMembers(s) ==
    IF s = <<>> \/ Head(s) # "\"" THEN NoMembers
    ELSE Eval(ParseStringBody(Tail(s)), LAMBDA k :
         IF ~k.ok \/ k.rest = <<>> \/ Head(k.rest) # ":" THEN NoMembers
         ELSE Eval(ParseValue(Tail(k.rest)), LAMBDA v :
              IF ~v.ok \/ v.rest = <<>> THEN NoMembers
              ELSE IF Head(v.rest) = "}"
              THEN [ok |-> TRUE, members |-> << <<k.str, v.val>> >>, rest |-> Tail(v.rest)]
              ELSE IF Head(v.rest) = ","
              THEN Eval(ParseMembers(Tail(v.rest)), LAMBDA m :
                        [ok |-> m.ok, members |-> << <<k.str, v.val>> >> \o m.members,
                         rest |-> m.rest])
              ELSE NoMembers))

ParseValue(s) ==
    IF s = <<>> THEN ParseError
    ELSE IF Head(s) = "\""
    THEN Eval(ParseStringBody(Tail(s)), LAMBDA r :
              IF r.ok THEN [ok |-> TRUE, val |-> JString(r.str), rest |-> r.rest]
              ELSE ParseError)
    ELSE IF Head(s) = "{"
    THEN IF Len(s) >= 2 /\ s[2] = "}"
         THEN [ok |-> TRUE, val |-> JObject(<<>>), rest |-> SubSeq(s, 3, Len(s))]
         ELSE Eval(ParseMembers(Tail(s)), LAMBDA m :
                   IF m.ok THEN [ok |-> TRUE, val |-> JObject(m.members), rest |-> m.rest]
                   ELSE ParseError)
    ELSE IF Len(s) >= 4 /\ SubSeq(s, 1, 4) = <<"n", "u", "l", "l">>
    THEN [ok |-> TRUE, val |-> JNull, rest |-> SubSeq(s, 5, Len(s))]
    ELSE IF IsDigit(Head(s))
    THEN Eval(DigitPrefix(s), LAMBDA d :
              IF Len(d) > 1 /\ Head(d) = "0" THEN ParseError
              ELSE [ok |-> TRUE, val |-> JNumber(DigitsValue(d)),
                    rest |-> SubSeq(s, Len(d) + 1, Len(s))])
    ELSE ParseError

\* JSON.parse(text): ok = FALSE stands for the SyntaxError it throws.
JSONParse(text) ==
    Eval(ParseValue(text), LAMBDA r :
         IF r.ok /\ r.rest = <<>> THEN [ok |-> TRUE, val |-> r.val]
         ELSE [ok |-> FALSE, val |-> JNull])

(***************************************************************************)
(* Profile store and dialogs: UserProvider (contexts/UserContext.tsx),     *)
(* LayoutContent (app/information/page.tsx:298), UserInfoDialog,           *)
(* EditUserButton, useFormValidation, InformationPage's access gate.       *)
(***************************************************************************)
Fields == {"username", "jobTitle"}

Instances == {"block", "edit"}

\* Texts typed into the username and job-title inputs.
UsernameValues ==
    {<<>>, <<"a", "b">>, <<"a", "b", "c">>, <<" ", "a", "b", "c">>, <<"a", "@", "c">>}

JobValues == {<<>>, <<"d", "e", "v">>, <<"d", "1">>}

TypedValues(field) == IF field = "username" THEN UsernameValues ELSE JobValues

\* Contents of localStorage['user-info'] a session can start with: absent,
\* the empty string, texts that are not JSON, JSON that is no profile, and
\* a profile written by an earlier session.
StoredAtStart ==
    {removeItem,
     setItem(<<>>),
     setItem(<<"x">>),
     setItem(<<"{", "x">>),
     setItem(<<"4", "2">>),
     setItem(<<"{", "}">>),
     setItem(JSONStringify(UserInfo(<<"a", "b", "c">>, <<"d", "e", "v">>)))}

\* user?.<key> || ''
StringOr(v, key) ==
    LET x == Property(v, key)
    IN  IF x.kind = "string" THEN x.str ELSE <<>>

\* A useFormValidation without its validation effect.
ValidationEffectSkipped(f) == f

\* The effect of useFormValidation: setValidationResults(validateForm(data)).
ValidationEffect(f) == [f EXCEPT !.validationResults = validateForm(f.data)]

\* updateField whose render is not followed by the validation effect: the
\* validation results stay those of the previous data.
updateFieldStaleResults(f, fieldName, value) ==
    [f EXCEPT !.data[fieldName] = value, !.touched[fieldName] = TRUE]

\* updateField(fieldName, value) with validateOnChange = true, followed by
\* the validation effect of the render it causes.
updateField(f, fieldName, value) ==
    ValidationEffect([f EXCEPT !.data[fieldName] = value, !.touched[fieldName] = TRUE])

markFieldAsTouched(f, fieldName) == [f EXCEPT !.touched[fieldName] = TRUE]

markAllAsTouched(f) == [f EXCEPT !.touched = [username |-> TRUE, jobTitle |-> TRUE]]

\* A UserInfoDialog mounting while the context holds user u.
MountedForm(u) ==
    ValidationEffect(useFormValidation([username |-> StringOr(u, <<"u", "s", "e", "r", "n", "a", "m", "e">>),
                                        jobTitle |-> StringOr(u, <<"j", "o", "b">>)]))

\* An onboarding dialog that a click on its backdrop closes.
shouldShowDialogDismissable == isHydrated /\ ~isLoading /\ ~Truthy(user) /\ uOp # "backdrop"

\* LayoutContent: const shouldShowDialog = isHydrated && !isLoading && !user
shouldShowDialog == isHydrated /\ ~isLoading /\ ~Truthy(user)

\* LayoutContent: const isBlocking = !user
isBlocking == ~Truthy(user)

\* LayoutContent renders EditUserButton when isHydrated && !isLoading && user.
ShowEditButton(hydrated, loading, u) == hydrated /\ ~loading /\ Truthy(u)

\* InformationPage without its isLoading branch.
InformationPageViewNoLoader(loading, u) ==
    IF ~Truthy(u) THEN "accessDenied" ELSE "content"

\* What InformationPage returns for the context it reads.
InformationPageView(loading, u) ==
    IF loading THEN "loader"
    ELSE IF ~Truthy(u) THEN "accessDenied"
    ELSE "content"

\* The isOpen prop of a dialog instance: shouldShowDialog for LayoutContent's,
\* isDialogOpen for EditUserButton's.
IsOpen(inst) == IF inst = "block" THEN shouldShowDialog ELSE editMounted /\ isDialogOpen

\* The isBlocking prop of a dialog instance: EditUserButton passes false.
IsBlockingOf(inst) == IF inst = "block" THEN isBlocking ELSE FALSE

\* useState(false) of both dialog instances.
NotEditing == [block |-> FALSE, edit |-> FALSE]

\* The dialog's effect on [isOpen, isBlocking, user]:
\* if (isOpen && !isBlocking && user) setEditing(true).
OpenEffect(e, open, blocking, u) == IF open /\ ~blocking /\ Truthy(u) THEN TRUE ELSE e

\* handleSetUser that updates the state only and never writes 'user-info'.
handleSetUserInMemoryOnly(newUser) == removeItem

\* handleSetUser(newUser): the storage it leaves.
handleSetUser(newUser) ==
    IF Truthy(newUser) THEN setItem(JSONStringify(newUser)) ELSE removeItem

UserInit ==
    /\ storage \in StoredAtStart
    /\ user = JNull
    /\ isLoading = TRUE
    /\ isHydrated = FALSE
    /\ form = [block |-> EmptyForm, edit |-> EmptyForm]
    /\ editMounted = FALSE
    /\ isDialogOpen = FALSE
    /\ editing = NotEditing
    /\ savedInfo = JNull
    /\ uOp = "render"

\* The render after a change of isHydrated, isLoading or user: EditUserButton
\* mounts (with a fresh dialog and form) when its condition turns true.
RenderEditButton ==
    /\ editMounted' = ShowEditButton(isHydrated', isLoading', user')
    /\ IF editMounted' /\ ~editMounted
       THEN /\ form' = [form EXCEPT !.edit = MountedForm(user')]
            /\ isDialogOpen' = FALSE
            /\ editing' = [editing EXCEPT !.edit = FALSE]
       ELSE UNCHANGED <<form, isDialogOpen, editing>>

\* useHydration's effect in LayoutContent: the layout stops returning null,
\* its UserInfoDialog mounts and runs its own mount effects.
useHydrationEffect ==
    /\ ~isHydrated
    /\ isHydrated' = TRUE
    /\ UNCHANGED <<storage, user, isLoading, savedInfo>>
    /\ editMounted' = ShowEditButton(TRUE, isLoading, user)
    /\ form' = [block |-> MountedForm(user),
                edit |-> IF editMounted' THEN MountedForm(user) ELSE form.edit]
    /\ UNCHANGED <<isDialogOpen, editing>>
    /\ uOp' = "hydrate"
    /\ UNCHANGED <<ctlVars, viewVars, libVars>>

\* A mount effect that calls setIsLoading(false) only inside if (stored).
UserProviderEffectLoadsOnlyStored ==
    /\ isLoading
    /\ LET stored == storage
           parsed == JSONParse(stored.text)
       IN  IF stored.present /\ stored.text # <<>>
           THEN /\ IF parsed.ok
                   THEN user' = parsed.val /\ UNCHANGED storage
                   ELSE storage' = removeItem /\ UNCHANGED user
                /\ isLoading' = FALSE
           ELSE UNCHANGED <<storage, user, isLoading>>
    /\ UNCHANGED <<isHydrated, savedInfo>>
    /\ RenderEditButton
    /\ uOp' = "load"
    /\ UNCHANGED <<ctlVars, viewVars, libVars>>

\* UserProvider's mount effect: read 'user-info' once.
UserProviderEffect ==
    /\ isLoading
    /\ LET stored == storage
           parsed == JSONParse(stored.text)
       IN  IF stored.present /\ stored.text # <<>>
           THEN IF parsed.ok
                THEN user' = parsed.val /\ UNCHANGED storage
                ELSE storage' = removeItem /\ UNCHANGED user
           ELSE UNCHANGED <<storage, user>>
    /\ isLoading' = FALSE
    /\ UNCHANGED <<isHydrated, savedInfo>>
    /\ RenderEditButton
    /\ uOp' = "load"
    /\ UNCHANGED <<ctlVars, viewVars, libVars>>

\* onChange of an input: updateField and markFieldAsTouched.
DialogChange(inst, fieldName, value) ==
    /\ IsOpen(inst)
    /\ value # form[inst].data[fieldName]
    /\ form' = [form EXCEPT
                  ![inst] = markFieldAsTouched(updateField(form[inst], fieldName, value), fieldName)]
    /\ uOp' = "updateField"
    /\ UNCHANGED <<storage, user, isLoading, isHydrated, editMounted, isDialogOpen, editing,
                   savedInfo>>
    /\ UNCHANGED <<ctlVars, viewVars, libVars>>

\* onBlur of an input.
DialogBlur(inst, fieldName) ==
    /\ IsOpen(inst)
    /\ form' = [form EXCEPT ![inst] = markFieldAsTouched(form[inst], fieldName)]
    /\ uOp' = "blur"
    /\ UNCHANGED <<storage, user, isLoading, isHydrated, editMounted, isDialogOpen, editing,
                   savedInfo>>
    /\ UNCHANGED <<ctlVars, viewVars, libVars>>

\* handleSave of a dialog instance (form submit).
handleSave(inst) ==
    /\ IsOpen(inst)
    /\ IF isFormValid(form[inst].validationResults)
       THEN LET info == UserInfo(form[inst].data.username, form[inst].data.jobTitle)
            IN  /\ user' = info
                /\ storage' = handleSetUser(info)
                /\ savedInfo' = info
                /\ editMounted' = ShowEditButton(isHydrated, isLoading, info)
                /\ form' = [block |-> IF inst = "block" THEN markAllAsTouched(form.block)
                                      ELSE form.block,
                            edit |-> IF editMounted' /\ ~editMounted THEN MountedForm(info)
                                     ELSE IF inst = "edit" THEN markAllAsTouched(form.edit)
                                     ELSE form.edit]
                /\ editing' = [editing EXCEPT ![inst] = FALSE]
                /\ isDialogOpen' = (IF inst = "edit" THEN FALSE ELSE isDialogOpen)
                /\ uOp' = "saved"
       ELSE /\ form' = [form EXCEPT ![inst] = markAllAsTouched(form[inst])]
            /\ uOp' = "saveRejected"
            /\ UNCHANGED <<user, storage, savedInfo, editMounted, editing, isDialogOpen>>
    /\ UNCHANGED <<isLoading, isHydrated>>
    /\ UNCHANGED <<ctlVars, viewVars, libVars>>

\* EditUserButton.handleEdit; the opened dialog's effect sets editing.
handleEdit ==
    /\ editMounted /\ ~isDialogOpen
    /\ isDialogOpen' = TRUE
    /\ editing' = [editing EXCEPT !.edit = OpenEffect(@, TRUE, IsBlockingOf("edit"), user)]
    /\ uOp' = "edit"
    /\ UNCHANGED <<storage, user, isLoading, isHydrated, form, editMounted, savedInfo>>
    /\ UNCHANGED <<ctlVars, viewVars, libVars>>

\* The Cancel button (rendered when !isBlocking) and the close button
\* (rendered when user && editing && !isBlocking): setEditing(false); onClose().
\* onClose is a no-op for LayoutContent's dialog, handleClose for the other.
DialogCancel(inst) ==
    /\ IsOpen(inst)
    /\ ~IsBlockingOf(inst)
    /\ editing' = [editing EXCEPT ![inst] = FALSE]
    /\ isDialogOpen' = (IF inst = "edit" THEN FALSE ELSE isDialogOpen)
    /\ uOp' = "cancel"
    /\ UNCHANGED <<storage, user, isLoading, isHydrated, form, editMounted, savedInfo>>
    /\ UNCHANGED <<ctlVars, viewVars, libVars>>

\* A click on the backdrop: closes only when user && editing && !isBlocking.
BackdropClick(inst) ==
    /\ IsOpen(inst)
    /\ IF Truthy(user) /\ editing[inst] /\ ~IsBlockingOf(inst)
       THEN /\ editing' = [editing EXCEPT ![inst] = FALSE]
            /\ isDialogOpen' = (IF inst = "edit" THEN FALSE ELSE isDialogOpen)
       ELSE UNCHANGED <<editing, isDialogOpen>>
    /\ uOp' = "backdrop"
    /\ UNCHANGED <<storage, user, isLoading, isHydrated, form, editMounted, savedInfo>>
    /\ UNCHANGED <<ctlVars, viewVars, libVars>>

\* A page reload: every component state is rebuilt, localStorage stays.
Reload ==
    /\ isHydrated /\ ~isLoading
    /\ user' = JNull
    /\ isLoading' = TRUE
    /\ isHydrated' = FALSE
    /\ form' = [block |-> EmptyForm, edit |-> EmptyForm]
    /\ editMounted' = FALSE
    /\ isDialogOpen' = FALSE
    /\ editing' = NotEditing
    /\ uOp' = "reload"
    /\ UNCHANGED <<storage, savedInfo>>
    /\ UNCHANGED <<ctlVars, viewVars, libVars>>

CtlIdle ==
    /\ variant = "page"
    /\ mounted = FALSE
    /\ searchParams = <<>>
    /\ pendingNav = <<>>
    /\ lastPush = NoPush
    /\ userActed = FALSE
    /\ page = 1
    /\ perPage = 12
    /\ searchTerm = <<>>
    /\ debouncedSearch = <<>>
    /\ debounceTimeout = NoTimer
    /\ isInitialized = FALSE
    /\ lastOp = "idle"

DialogInput ==
    \E inst \in Instances, fieldName \in Fields :
        \/ \E value \in TypedValues(fieldName) : DialogChange(inst, fieldName, value)
        \/ DialogBlur(inst, fieldName)

DialogSave == \E inst \in Instances : handleSave(inst)

DialogDismiss == \E inst \in Instances : DialogCancel(inst) \/ BackdropClick(inst)

UserNext ==
    \/ useHydrationEffect
    \/ UserProviderEffect
    \/ DialogInput
    \/ DialogSave
    \/ handleEdit
    \/ DialogDismiss
    \/ Reload

InitUser == UserInit /\ CtlIdle /\ ViewIdle /\ LibIdle

SpecUser == InitUser /\ [][UserNext]_vars

\* React runs the mount effect of a mounted UserProvider after its first
\* commit: the effect cannot stay pending for ever.
SpecUserFair == InitUser /\ [][UserNext]_vars /\ WF_vars(UserProviderEffect)

(***************************************************************************)
(* UserProvider under arbitrary setUser calls of its consumers             *)
(* (specification SpecProvider).                                           *)
(***************************************************************************)
\* setUser(newUser) of the context value, for null and for every profile
\* that can be built from the typed values.
setUser(newUser) ==
    /\ ~isLoading
    /\ user' = newUser
    /\ storage' = handleSetUser(newUser)
    /\ UNCHANGED <<isLoading, isHydrated, savedInfo>>
    /\ RenderEditButton
    /\ uOp' = "setUser"
    /\ UNCHANGED <<ctlVars, viewVars, libVars>>

SpecProvider ==
    InitUser /\ [][\/ useHydrationEffect
                   \/ UserProviderEffect
                   \/ \E newUser \in {JNull} \cup {UserInfo(u, j) : u \in UsernameValues,
                                                                  j \in JobValues} :
                         setUser(newUser)
                   \/ Reload]_vars

(***************************************************************************)
(* Calls of the validation library (specification SpecLib).                *)
(***************************************************************************)
\* Arguments the library functions are called with (the functions are pure:
\* a behaviour makes one call).  A rule set holds
\* required, minLength, maxLength and pattern in every combination; the
\* field name "other" stands for a call without field name.
LibInputs ==
    [values |-> {<<>>, <<" ">>, <<" ", " ">>, <<"a">>, <<"a", "b">>, <<"a", "b", "c">>,
                 <<" ", "a", "b", " ">>, <<"a", "@">>, <<"a", "@", "c", "d">>, <<"a", "1">>,
                 <<"a", "b", "c", "d", "e">>},
     rules |-> [required : BOOLEAN, minLength : {0, 2, 4}, maxLength : {0, 1, 3},
                pattern : {"none", "USERNAME", "JOB_TITLE"}],
     fieldNames |-> {"username", "jobTitle", "other"},
     data |-> [username : UsernameValues, jobTitle : JobValues]]

\* validateField(value, rules, fieldName)
CallValidateField ==
    /\ call.fn = "none"
    /\ \E value \in LibInputs.values, rules \in LibInputs.rules,
          fieldName \in LibInputs.fieldNames :
          /\ call' = [fn |-> "validateField", value |-> value, rules |-> rules,
                      fieldName |-> fieldName]
          /\ result' = validateField(value, rules, fieldName)
    /\ UNCHANGED <<ctlVars, userVars, viewVars>>

\* validateForm(data), then isFormValid and getFormErrors on its result.
CallValidateForm ==
    /\ call.fn = "none"
    /\ \E data \in LibInputs.data :
          LET validationResults == validateForm(data)
          IN  /\ call' = [fn |-> "validateForm", data |-> data]
              /\ result' = [validationResults |-> validationResults,
                            isFormValid |-> isFormValid(validationResults),
                            getFormErrors |-> getFormErrors(validationResults)]
    /\ UNCHANGED <<ctlVars, userVars, viewVars>>

InitLib == CtlIdle /\ UserIdle /\ ViewIdle /\ LibIdle

SpecLib == InitLib /\ [][CallValidateField \/ CallValidateForm]_vars

(***************************************************************************)
(* Listing view: query result, detail modal, body scroll lock.             *)
(***************************************************************************)
\* Items of the listing (0 stands for no selection).
Animes == {1, 2}

QueryOutcomes == {"error", "empty", "items"}

\* document.body.style.overflow when the listing is mounted: '' on a fresh
\* document, 'unset' once a UserInfoDialog has rendered closed or unmounted
\* (UserInfoDialog.tsx lines 69 and 74).  The only other writer sets 'hidden'
\* while that dialog is open, and then no listing item can be clicked.
OverflowValues == {"", "unset"}

\* What the listing shows for a query result: InformationPage renders the
\* spinner, the error box and the empty-state box by three independent
\* conditions (animeList is [] when data is undefined); AnimeList returns
\* the spinner or the error box early.
Displayed(v, q) ==
    IF v = "list"
    THEN IF q = "loading" THEN {"spinner"}
         ELSE IF q = "error" THEN {"error"}
         ELSE IF q = "empty" THEN {"empty"} ELSE {"items"}
    ELSE (IF q = "loading" THEN {"spinner"} ELSE {})
         \cup (IF q = "error" THEN {"error"} ELSE {})
         \cup (IF q # "items" /\ q # "loading" THEN {"empty"} ELSE {})
         \cup (IF q = "items" THEN {"items"} ELSE {})

\* Whether AnimeModal is mounted: AnimeList renders it only for
\* selectedAnime && isModalOpen (and not at all from its loading and error
\* returns); InformationPage hands the selection and the open flag down and
\* the modal itself returns null for !anime || !isOpen.
ModalMounted(v, m, q, sel, open) ==
    IF v = "list" THEN m /\ q \in {"empty", "items"} /\ sel # 0 /\ open
    ELSE m

\* An effect cleanup that restores nothing.
LockCleanupKeepsLock(h, overflow) == [h |-> h, overflow |-> overflow]

\* Cleanup of the first effect of useBodyScrollLock (and the body of the
\* unmount effect's cleanup, which is the same code).
LockCleanup(h, overflow) ==
    IF h.hasLock
    THEN LET n == MathMax(0, h.lockCount - 1)
         IN  IF n = 0
             THEN [h |-> [h EXCEPT !.lockCount = n, !.hasLock = FALSE],
                   overflow |-> h.originalOverflow]
             ELSE [h |-> [h EXCEPT !.lockCount = n], overflow |-> overflow]
    ELSE [h |-> h, overflow |-> overflow]

\* The bodies of the effects on [isLocked], run with isLocked = locked.
LockEffects(h, overflow, locked) ==
    LET h0 == IF h.isInitialized THEN h
              ELSE [h EXCEPT !.originalOverflow = overflow, !.isInitialized = TRUE]
        r1 == IF locked
              THEN [h |-> [h0 EXCEPT !.lockCount = h0.lockCount + 1, !.hasLock = TRUE],
                    overflow |-> "hidden"]
              ELSE LET n == MathMax(0, h0.lockCount - 1)
                   IN  IF n = 0
                       THEN [h |-> [h0 EXCEPT !.lockCount = n, !.hasLock = FALSE],
                             overflow |-> h0.originalOverflow]
                       ELSE [h |-> [h0 EXCEPT !.lockCount = n], overflow |-> overflow]
    IN  [h |-> [r1.h EXCEPT !.isLocked = locked,
                            !.fallback10 = (~locked /\ r1.h.hasLock),
                            !.fallback100 = ~locked],
         overflow |-> r1.overflow]

\* useBodyScrollLock(isLocked) across one commit: mount, a change of
\* isLocked, unmount, or nothing.
useBodyScrollLock(h, overflow, wantMounted, locked) ==
    IF ~h.mounted /\ wantMounted
    THEN LET fresh == [NoScrollLock EXCEPT !.mounted = TRUE, !.atMount = overflow]
         IN  LockEffects(fresh, overflow, locked)
    ELSE IF h.mounted /\ ~wantMounted
    THEN LET c1 == LockCleanup(h, overflow)
             c2 == LockCleanup(c1.h, c1.overflow)
         IN  [h |-> [NoScrollLock EXCEPT !.atMount = h.atMount], overflow |-> c2.overflow]
    ELSE IF h.mounted /\ locked # h.isLocked
    THEN LET c1 == LockCleanup(h, overflow)
         IN  LockEffects([c1.h EXCEPT !.fallback10 = FALSE, !.fallback100 = FALSE],
                         c1.overflow, locked)
    ELSE [h |-> h, overflow |-> overflow]

\* The commit after a view state change: AnimeModal is mounted, re-rendered
\* or unmounted and its scroll-lock effects run.
RenderModal ==
    LET r == useBodyScrollLock(scrollLock, bodyOverflow,
                               ModalMounted(variant, mounted', query', selectedAnime',
                                            isModalOpen'),
                               isModalOpen')
    IN  scrollLock' = r.h /\ bodyOverflow' = r.overflow

ViewInit ==
    /\ query = "loading"
    /\ selectedAnime = 0
    /\ isModalOpen = FALSE
    /\ clearTimers = 0
    /\ scrollLock = NoScrollLock
    /\ bodyOverflow \in OverflowValues
    /\ vOp = "render"

\* useQuery delivers a result.
QueryResult(outcome) ==
    /\ mounted /\ query = "loading"
    /\ query' = outcome
    /\ UNCHANGED <<selectedAnime, isModalOpen, clearTimers, mounted>>
    /\ RenderModal
    /\ vOp' = "queryResult"
    /\ UNCHANGED <<libVars, userVars, variant, searchParams, pendingNav, lastPush, userActed,
                   page, perPage, searchTerm, debouncedSearch, debounceTimeout,
                   isInitialized, lastOp>>

\* useQuery goes back to loading (changed variables, network refetch).
Refetch ==
    /\ mounted /\ query # "loading"
    /\ query' = "loading"
    /\ UNCHANGED <<selectedAnime, isModalOpen, clearTimers, mounted>>
    /\ RenderModal
    /\ vOp' = "refetch"
    /\ UNCHANGED <<libVars, userVars, variant, searchParams, pendingNav, lastPush, userActed,
                   page, perPage, searchTerm, debouncedSearch, debounceTimeout,
                   isInitialized, lastOp>>

\* handleAnimeClick(anime): a click on a card of the listing (the cards are
\* covered while the modal is displayed).
handleAnimeClick(anime) ==
    /\ mounted /\ query = "items"
    /\ ~(isModalOpen /\ selectedAnime # 0)
    /\ selectedAnime' = anime
    /\ isModalOpen' = TRUE
    /\ UNCHANGED <<query, clearTimers, mounted>>
    /\ RenderModal
    /\ vOp' = "open"
    /\ UNCHANGED <<libVars, userVars, variant, searchParams, pendingNav, lastPush, userActed,
                   page, perPage, searchTerm, debouncedSearch, debounceTimeout,
                   isInitialized, lastOp>>

\* handleCloseModal: the modal's close controls and its Escape key handler,
\* which exist while AnimeModal is mounted with isOpen.
handleCloseModal ==
    /\ mounted /\ scrollLock.mounted /\ isModalOpen
    /\ clearTimers < MaxClearTimers
    /\ isModalOpen' = FALSE
    /\ clearTimers' = clearTimers + 1
    /\ UNCHANGED <<query, selectedAnime, mounted>>
    /\ RenderModal
    /\ vOp' = "close"
    /\ UNCHANGED <<libVars, userVars, variant, searchParams, pendingNav, lastPush, userActed,
                   page, perPage, searchTerm, debouncedSearch, debounceTimeout,
                   isInitialized, lastOp>>

\* The callback of handleCloseModal's setTimeout: setSelectedAnime(null).
\* Nothing ever clears this timeout; on an unmounted component the state
\* update is dropped.
SelectionClearFire ==
    /\ clearTimers > 0
    /\ clearTimers' = clearTimers - 1
    /\ selectedAnime' = (IF mounted THEN 0 ELSE selectedAnime)
    /\ UNCHANGED <<query, isModalOpen, mounted>>
    /\ RenderModal
    /\ vOp' = (IF mounted THEN "clearSelection" ELSE "clearAfterUnmount")
    /\ UNCHANGED <<libVars, userVars, variant, searchParams, pendingNav, lastPush, userActed,
                   page, perPage, searchTerm, debouncedSearch, debounceTimeout,
                   isInitialized, lastOp>>

\* The 10 ms fallback timer is armed only for !isLocked && hasLock.current,
\* which the first effect has just made false: it is never pending.
\* The 100 ms fallback timer of useBodyScrollLock.
Fallback100Fire ==
    /\ scrollLock.fallback100
    /\ scrollLock' = [scrollLock EXCEPT !.fallback100 = FALSE]
    /\ bodyOverflow' = (IF scrollLock.lockCount = 0 /\ bodyOverflow = "hidden"
                        THEN scrollLock.originalOverflow ELSE bodyOverflow)
    /\ vOp' = "fallback100"
    /\ UNCHANGED <<query, selectedAnime, isModalOpen, clearTimers>>
    /\ UNCHANGED <<libVars, userVars, ctlVars>>

\* The controller is unmounted (navigation away): the debounce effect's
\* cleanup clears its timeout, AnimeModal unmounts with it.
Unmount ==
    /\ mounted
    /\ mounted' = FALSE
    /\ debounceTimeout' = NoTimer
    /\ NoRouterPush
    /\ lastOp' = "unmount"
    /\ UNCHANGED <<query, selectedAnime, isModalOpen, clearTimers>>
    /\ RenderModal
    /\ vOp' = "unmount"
    /\ UNCHANGED <<libVars, userVars, variant, searchParams, userActed, page, perPage,
                   searchTerm, debouncedSearch, isInitialized>>

\* The controller mounts once, from the state of its first render.
ViewMount == lastOp = "render" /\ Mount

ViewNext ==
    \/ ViewMount
    \/ TypeSearch
    \/ DebounceFire
    \/ Refetch
    \/ \E outcome \in QueryOutcomes : QueryResult(outcome)
    \/ \E anime \in Animes : handleAnimeClick(anime)
    \/ handleCloseModal
    \/ SelectionClearFire
    \/ Fallback100Fire
    \/ Unmount

InitView == CtlInit /\ searchParams = <<>> /\ UserIdle /\ ViewInit /\ LibIdle

SpecView == InitView /\ [][ViewNext]_vars

(***************************************************************************)
(* Claims about the listing controllers (specification Spec).              *)
(***************************************************************************)
PerPageValues == {6, 12, 24, 48}

\* C1: in every reachable state of a listing controller perPage is one of
\* 6, 12, 24, 48 and page is an integer >= 1.
C1_QueryStateInvariant ==
    /\ perPage \in PerPageValues
    /\ page # NaN
    /\ page >= 1

\* C2: the effective (debounced) search term of the search-capable
\* controllers always has length 0 or at least 3.
C2_EffectiveSearchLength ==
    HasSearch => (Len(debouncedSearch) = 0 \/ Len(debouncedSearch) >= 3)

\* C3: every handlePerPageChange step, from every prior page value, ends in a
\* state with page = 1, and the query of the resulting render is made with
\* page 1 and the newly selected perPage. (Only the handlePerPageChange
\* steps set lastOp to "perPageChange".)
C3_PerPageChangeResetsPage ==
    [][lastOp' = "perPageChange"
       => \A value \in PerPageOptions :
             (\/ handlePerPageChangePage(value)
              \/ handlePerPageChangeSearch(value)
              \/ handlePerPageChangeList(value))
             => /\ page' = 1
                /\ QueryVariables'.page = 1
                /\ QueryVariables'.perPage = parseInt(value)
                /\ QueryVariables'.perPage \in PerPageValues]_vars

\* C3 witness: a per-page change made on page 3 (the URL still shows page 3)
\* has left page 1 with 48 items per page.
C3_Witness ==
    /\ variant = "page"
    /\ lastOp = "perPageChange"
    /\ GetOr(searchParams, "page", <<"1">>) = <<"3">>
    /\ page = 1
    /\ perPage = 48

\* C4: right after the debounce timer commits a typed value (one that differs
\* from the term the page was loaded with), page is 1.
C4_CommitResetsPage ==
    (lastOp = "commit" /\ debouncedSearch # initialSearch(searchParams)) => page = 1

URL_Page3_PerPage24 == MakeURL(<<"3">>, <<>>, <<"2", "4">>)

\* C5: loaded with ?page=3&perPage=24 and with no user event, the state stays
\* page = 3, perPage = 24 through mount effects and timers, and every query
\* string the controller writes is page=3&perPage=24.
C5_UrlRoundTrip ==
    (searchParams = URL_Page3_PerPage24 /\ ~userActed)
    => /\ page = 3
       /\ perPage = 24
       /\ (lastPush # NoPush => lastPush = URL_Page3_PerPage24)

\* C6: a written query string contains page exactly when page differs from 1,
\* perPage exactly when perPage differs from 12, search exactly when the
\* search value is non-empty, and is empty when all three are at their defaults.
C6_UrlSyncOmitsDefaults ==
    lastPush # NoPush
    => /\ HasKey(lastPush, "page") <=> page # 1
       /\ HasKey(lastPush, "perPage") <=> perPage # 12
       /\ HasKey(lastPush, "search") <=> searchTerm # <<>>
       /\ (page = 1 /\ perPage = 12 /\ searchTerm = <<>>) => lastPush = <<>>

(***************************************************************************)
(* Claims about the profile store and its dialogs (specification SpecUser).*)
(***************************************************************************)
\* A stored text that decodes to a record with a string username and a string job.
WellFormedRecord(text) ==
    LET r == JSONParse(text)
    IN  /\ r.ok
        /\ r.val.kind = "object"
        /\ Property(r.val, <<"u", "s", "e", "r", "n", "a", "m", "e">>).kind = "string"
        /\ Property(r.val, <<"j", "o", "b">>).kind = "string"

AllTouched == [username |-> TRUE, jobTitle |-> TRUE]

\* C7: when UserProvider's startup read finds a 'user-info' content that is
\* not a well-formed {username, job} record, the user stays null, the key is
\* removed and loading completes.
C7_MalformedStoredDiscarded ==
    [][(UserProviderEffect /\ storage.present /\ ~WellFormedRecord(storage.text))
       => /\ user' = JNull
          /\ ~storage'.present
          /\ ~isLoading']_vars

\* C8: once handleSave has succeeded, the stored record decodes to exactly the
\* saved {username, job}; whenever loading is complete (in the saving session
\* and after every reload) the user is that profile and the onboarding
\* dialog is not shown.
C8_ProfileRoundTrip ==
    savedInfo # JNull
    => /\ storage.present
       /\ JSONParse(storage.text) = [ok |-> TRUE, val |-> savedInfo]
       /\ WellFormedRecord(storage.text)
       /\ ~isLoading => (user = savedInfo /\ ~shouldShowDialog /\ ~IsOpen("block"))

\* A reloaded session has finished loading the profile saved before the reload.
C8_Witness ==
    /\ uOp = "load"
    /\ isHydrated
    /\ savedInfo = UserInfo(<<"a", "b", "c">>, <<"d", "e", "v">>)
    /\ user = savedInfo
    /\ storage = setItem(JSONStringify(savedInfo))

\* C9: InformationPage renders the listing only when loading is complete and
\* a user exists, renders the loader while loading, and with no user (in
\* particular with nothing stored) renders Access Denied while the blocking
\* onboarding dialog is open, once hydration and loading are done.
C9_AccessGating ==
    LET view == InformationPageView(isLoading, user)
    IN  /\ view = "content" => (~isLoading /\ Truthy(user))
        /\ isLoading => view = "loader"
        /\ (isHydrated /\ ~isLoading /\ (~Truthy(user) \/ ~storage.present))
           => /\ view = "accessDenied"
              /\ IsOpen("block")
              /\ IsBlockingOf("block")

\* A session started on an empty storage is hydrated and loaded.
C9_Witness ==
    /\ uOp \in {"load", "hydrate"}
    /\ isHydrated /\ ~isLoading
    /\ ~storage.present
    /\ user = JNull
    /\ InformationPageView(isLoading, user) = "accessDenied"
    /\ shouldShowDialog

\* C10: handleSave on form data that fails validation changes neither the
\* user nor the stored record, leaves the dialog open and the data as typed
\* and marks every field touched; a change of an input stores the typed
\* value whatever it is; handleSave passes a profile to setUser only when
\* both fields of the current data pass validation.
C10_ValidationBlocksSubmissionOnly ==
    [][/\ \A inst \in Instances :
             (handleSave(inst) /\ ~isFormValid(validateForm(form[inst].data)))
             => /\ user' = user
                /\ storage' = storage
                /\ IsOpen(inst)'
                /\ form'[inst].touched = AllTouched
                /\ form'[inst].data = form[inst].data
       /\ \A inst \in Instances, fieldName \in Fields :
             \A value \in TypedValues(fieldName) :
                DialogChange(inst, fieldName, value)
                => /\ form'[inst].data[fieldName] = value
                   /\ user' = user
                   /\ storage' = storage
       /\ \A inst \in Instances :
             (handleSave(inst) /\ (user' # user \/ storage' # storage \/ uOp' = "saved"))
             => /\ validateForm(form[inst].data).username.isValid
                /\ validateForm(form[inst].data).jobTitle.isValid
                /\ user' = UserInfo(form[inst].data.username, form[inst].data.jobTitle)]_vars

\* A save attempt on invalid data has just been rejected in the onboarding dialog.
C10_Witness ==
    /\ uOp = "saveRejected"
    /\ form.block.data.username = <<"a", "@", "c">>
    /\ ~isFormValid(validateForm(form.block.data))
    /\ form.block.touched = AllTouched
    /\ user = JNull
    /\ ~storage.present
    /\ IsOpen("block")

(***************************************************************************)
(* Claims about the listing view (specification SpecView).                 *)
(***************************************************************************)
\* C11: the empty-state message and the error message are never displayed
\* together; the empty-state message is displayed only for a query that
\* completed without error with zero items; a failed query displays the
\* error message only.
C11_EmptyAndErrorDistinct ==
    LET shown == Displayed(variant, query)
    IN  /\ ~({"error", "empty"} \subseteq shown)
        /\ "empty" \in shown => query = "empty"
        /\ (mounted /\ query = "error") => shown = {"error"}

(***************************************************************************)
(* Claims about the validation library (specification SpecLib).            *)
(***************************************************************************)
Blank(value) == value = <<>> \/ trim(value) = <<>>

RequiredOnly == [required |-> TRUE, minLength |-> 0, maxLength |-> 0, pattern |-> "none"]

PatternMessages == {ERROR_INVALID_USERNAME, ERROR_INVALID_JOB_TITLE, ERROR_INVALID_FORMAT}

\* C12: with required set, a blank value gives exactly the one error 'This
\* field is required' whatever the other rules are; with {required: true}
\* alone every other value is valid with no error.
C12_RequiredShortCircuit ==
    (call.fn = "validateField" /\ call.rules.required)
    => /\ Blank(call.value) => result = [isValid |-> FALSE, errors |-> <<ERROR_REQUIRED>>]
       /\ (~Blank(call.value) /\ call.rules = RequiredOnly)
          => result = [isValid |-> TRUE, errors |-> <<>>]

\* A whitespace-only value under a rule set with required and every other rule.
C12_Witness ==
    /\ call.fn = "validateField"
    /\ call.value = <<" ", " ">>
    /\ call.rules = [required |-> TRUE, minLength |-> 4, maxLength |-> 1, pattern |-> "USERNAME"]
    /\ result.errors = <<ERROR_REQUIRED>>

\* C13: without required, the empty string is valid with an empty error
\* list under every combination of minLength, maxLength and pattern.
C13_OptionalEmptyPasses ==
    (call.fn = "validateField" /\ ~call.rules.required /\ call.value = <<>>)
    => result = [isValid |-> TRUE, errors |-> <<>>]

\* The empty string under an optional rule set with all three other rules.
C13_Witness ==
    /\ call.fn = "validateField"
    /\ call.value = <<>>
    /\ call.rules = [required |-> FALSE, minLength |-> 4, maxLength |-> 1, pattern |-> "JOB_TITLE"]
    /\ result.isValid

\* C14: for a non-blank value the error list is the minimum-length message
\* if the trimmed length is below minLength, then the maximum-length
\* message if it is above maxLength, then one pattern message if the
\* pattern does not match, and nothing else; isValid holds exactly when the
\* list is empty.
C14_AllViolationsInOrder ==
    (call.fn = "validateField" /\ ~Blank(call.value))
    => LET t == trim(call.value)
           r == call.rules
           tooShort == r.minLength # 0 /\ Len(t) < r.minLength
           tooLong == r.maxLength # 0 /\ Len(t) > r.maxLength
           noMatch == r.pattern # "none" /\ ~PatternTest(r.pattern, t)
           lengths == (IF tooShort THEN <<ERROR_MIN_LENGTH(r.minLength)>> ELSE <<>>)
                      \o (IF tooLong THEN <<ERROR_MAX_LENGTH(r.maxLength)>> ELSE <<>>)
       IN  /\ Len(result.errors) = Len(lengths) + (IF noMatch THEN 1 ELSE 0)
           /\ SubSeq(result.errors, 1, Len(lengths)) = lengths
           /\ noMatch => result.errors[Len(result.errors)] \in PatternMessages
           /\ result.isValid <=> result.errors = <<>>

\* A value that is too short, too long and does not match: three errors.
C14_Witness ==
    /\ call.fn = "validateField"
    /\ call.value = <<"a", "@">>
    /\ call.rules = [required |-> TRUE, minLength |-> 4, maxLength |-> 1, pattern |-> "USERNAME"]
    /\ call.fieldName = "username"
    /\ result = [isValid |-> FALSE,
                 errors |-> <<ERROR_MIN_LENGTH(4), ERROR_MAX_LENGTH(1), ERROR_INVALID_USERNAME>>]

\* Whether a message is in an error list.
Contains(errors, message) == \E i \in 1..Len(errors) : errors[i] = message

\* C15: a pattern violation of field 'username' is reported with the
\* username message and one of 'jobTitle' with the job-title message; for
\* these two fields 'Invalid format' never appears, in validateField and in
\* validateForm alike.
C15_FieldSpecificPatternMessage ==
    /\ (call.fn = "validateField" /\ call.fieldName \in {"username", "jobTitle"})
       => LET noMatch == /\ ~Blank(call.value)
                         /\ call.rules.pattern # "none"
                         /\ ~PatternTest(call.rules.pattern, trim(call.value))
              own == IF call.fieldName = "username" THEN ERROR_INVALID_USERNAME
                     ELSE ERROR_INVALID_JOB_TITLE
          IN  /\ noMatch <=> Contains(result.errors, own)
              /\ ~Contains(result.errors, ERROR_INVALID_FORMAT)
              /\ \A m \in PatternMessages \ {own} : ~Contains(result.errors, m)
    /\ call.fn = "validateForm"
       => /\ ~Contains(result.getFormErrors, ERROR_INVALID_FORMAT)
          /\ ~Contains(result.validationResults.username.errors, ERROR_INVALID_JOB_TITLE)
          /\ ~Contains(result.validationResults.jobTitle.errors, ERROR_INVALID_USERNAME)
          /\ (~Blank(call.data.username) /\ ~TestUSERNAME(trim(call.data.username)))
             => Contains(result.validationResults.username.errors, ERROR_INVALID_USERNAME)
          /\ (~Blank(call.data.jobTitle) /\ ~TestJOB_TITLE(trim(call.data.jobTitle)))
             => Contains(result.validationResults.jobTitle.errors, ERROR_INVALID_JOB_TITLE)

\* A username that violates only the pattern.
C15_Witness ==
    /\ call.fn = "validateField"
    /\ call.value = <<"a", "@", "c", "d">>
    /\ call.fieldName = "username"
    /\ call.rules.pattern = "USERNAME"
    /\ result.errors = <<ERROR_INVALID_USERNAME>>

\* C16: validateForm returns one result per declared field; isFormValid is
\* the conjunction of their isValid flags; getFormErrors is the username
\* errors followed by the job-title errors.
C16_FormAggregation ==
    call.fn = "validateForm"
    => LET vr == result.validationResults
       IN  /\ DOMAIN vr = {"username", "jobTitle"}
           /\ vr.username = validateField(call.data.username, VALIDATION_SCHEMA.username, "username")
           /\ vr.jobTitle = validateField(call.data.jobTitle, VALIDATION_SCHEMA.jobTitle, "jobTitle")
           /\ result.isFormValid <=> (vr.username.isValid /\ vr.jobTitle.isValid)
           /\ result.getFormErrors = vr.username.errors \o vr.jobTitle.errors
           /\ Len(result.getFormErrors) = Len(vr.username.errors) + Len(vr.jobTitle.errors)

\* A form whose two fields both fail, with different messages.
C16_Witness ==
    /\ call.fn = "validateForm"
    /\ call.data = [username |-> <<"a", "@", "c">>, jobTitle |-> <<"d", "1">>]
    /\ ~result.isFormValid
    /\ result.getFormErrors = <<ERROR_INVALID_USERNAME, ERROR_INVALID_JOB_TITLE>>

(***************************************************************************)
(* Claims about UserProvider's storage mirror (specification SpecProvider).*)
(***************************************************************************)
\* C17: once loading has completed, after any sequence of setUser calls the
\* record under 'user-info' is the JSON encoding of the in-memory user and
\* is absent exactly when the in-memory user is null.
C17_StorageMirrorsUser ==
    ~isLoading
    => /\ storage.present <=> user # JNull
       /\ storage.present => storage.text = JSONStringify(user)

(***************************************************************************)
(* Claims about the detail modal and the timers (specification SpecView).  *)
(***************************************************************************)
\* C18: the lock count of useBodyScrollLock stays in {0, 1}; document body
\* overflow is 'hidden' while AnimeModal is mounted and open; after any
\* sequence of open and close toggles and after unmount it otherwise equals
\* the value it had when the hook mounted.
C18_BodyScrollLock ==
    /\ scrollLock.lockCount \in {0, 1}
    /\ bodyOverflow = "hidden" <=> (scrollLock.mounted /\ scrollLock.isLocked)
    /\ (scrollLock.atMount # "never" /\ ~(scrollLock.mounted /\ scrollLock.isLocked))
       => bodyOverflow = scrollLock.atMount

\* The modal of InformationPage was opened and closed again and the final
\* fallback timer has run: the body scrolls as before the mount.
C18_Witness ==
    /\ variant = "page"
    /\ vOp = "fallback100"
    /\ selectedAnime # 0
    /\ scrollLock.mounted /\ ~scrollLock.isLocked /\ ~scrollLock.fallback100
    /\ scrollLock.atMount = "unset"
    /\ bodyOverflow = "unset"

\* C19: in every reachable state in which the open flag of the detail modal
\* is true the selection is non-null, also when an item is opened during the
\* 100 ms after a close.
C19_OpenModalHasItem == isModalOpen => selectedAnime # 0

\* C20: the search debounce timer and the selection-clear timer are cancelled
\* by every new triggering event and on unmount: no timer is pending after
\* unmount, an open of the modal leaves no selection-clear timer pending, and a
\* close leaves exactly its own.
C20_TimersCancelled ==
    /\ ~mounted => (~debounceTimeout.pending /\ clearTimers = 0)
    /\ vOp = "open" => clearTimers = 0
    /\ clearTimers <= 1

(***************************************************************************)
(* Claims about the search debounce and the URL (specification Spec).      *)
(***************************************************************************)
\* C21: every change of the typed search value cancels the pending debounce
\* timer and starts a new one, so the one pending timer always carries the
\* latest typed value; the effective search term changes only in a step in
\* which that timer fires, and the value committed is the latest typed value.
C21_DebounceOrdering ==
    /\ [](debounceTimeout.pending => debounceTimeout.term = searchTerm)
    /\ [][/\ searchTerm' # searchTerm
             => (debounceTimeout'.pending /\ debounceTimeout'.term = searchTerm')
          /\ debouncedSearch' # debouncedSearch
             => /\ debounceTimeout.pending
                /\ ~debounceTimeout'.pending
                /\ lastOp' = "commit"
                /\ searchTerm' = searchTerm
                /\ debouncedSearch' = searchTerm]_vars

\* Typed after load, the value "aaa" has been committed by the timer while the
\* page was loaded with another search term.
C21_Witness ==
    /\ variant = "search"
    /\ lastOp = "commit"
    /\ userActed
    /\ searchTerm = <<"a", "a", "a">>
    /\ debouncedSearch = <<"a", "a", "a">>
    /\ initialSearch(searchParams) = <<"n", "a", "n">>

\* C22: a keystroke that leaves the typed value at length 1 or 2, and the
\* timer that follows it, leave the fetch tuple (effective search, page,
\* perPage) unchanged, whatever page the user was on.
C22_PartialInputFiresNoQuery ==
    [][(lastOp' \in {"type", "noCommit"} /\ Len(searchTerm') \in {1, 2})
       => QueryVariables' = QueryVariables]_vars

\* C23: every search value written to the URL by the search-capable
\* controllers equals the effective (debounced) search term at that moment.
C23_UrlHoldsCommittedSearch ==
    (HasSearch /\ lastPush # NoPush) => GetOr(lastPush, "search", <<>>) = debouncedSearch

(***************************************************************************)
(* Claims about the form hook and the dialogs (specification SpecUser).    *)
(***************************************************************************)
\* Whether the UserInfoDialog instance (and its useFormValidation) is mounted.
FormMounted(inst) == IF inst = "block" THEN isHydrated ELSE editMounted

\* C25: after initialization and after each updateField the validation
\* results of a mounted form are validateForm(current data), touched or not,
\* and isValid is never true while a field of the current data fails;
\* markFieldAsTouched and markAllAsTouched change neither data nor results.
C25_RevalidatesOnDataChange ==
    /\ [](\A inst \in Instances :
             FormMounted(inst)
             => /\ form[inst].validationResults = validateForm(form[inst].data)
                /\ isFormValid(form[inst].validationResults)
                   => \A f \in Fields : validateForm(form[inst].data)[f].isValid)
    /\ [][uOp' \in {"blur", "saveRejected"}
          => \A inst \in Instances :
                /\ form'[inst].data = form[inst].data
                /\ form'[inst].validationResults = form[inst].validationResults]_vars

\* A username was typed into the onboarding dialog: the untouched job-title
\* field has its (failing) result computed all the same.
C25_Witness ==
    /\ uOp = "updateField"
    /\ form.block.data = [username |-> <<"a", "b", "c">>, jobTitle |-> <<>>]
    /\ ~form.block.touched.jobTitle
    /\ form.block.validationResults.username.isValid
    /\ form.block.validationResults.jobTitle = [isValid |-> FALSE, errors |-> <<ERROR_REQUIRED>>]

\* C26: while no user exists the onboarding dialog stays open through
\* backdrop clicks, typing and save attempts with invalid data, no cancel or
\* close ever happens on it, and within a session it closes only in a save
\* step that stores a user.
C26_OnboardingDialogBlocks ==
    [][(IsOpen("block") /\ ~Truthy(user) /\ uOp' # "reload")
       => /\ uOp' # "cancel"
          /\ \/ IsOpen("block")' /\ ~Truthy(user') /\ user' = user /\ storage' = storage
             \/ /\ uOp' = "saved"
                /\ Truthy(user')
                /\ storage' = setItem(JSONStringify(user'))
                /\ isFormValid(validateForm(form.block.data))
                /\ ~IsOpen("block")']_vars

\* The backdrop of the open onboarding dialog was clicked after an invalid
\* save attempt was made: no user, dialog open.
C26_Witness ==
    /\ uOp = "backdrop"
    /\ form.block.touched = AllTouched
    /\ ~isFormValid(form.block.validationResults)
    /\ user = JNull
    /\ IsOpen("block")
    /\ IsBlockingOf("block")

\* C28: every profile that handleSave passes to setUser has a username that
\* itself matches ^[a-zA-Z0-9_-]{3,20}$ and a job of 2 to 50 characters made
\* only of letters and spaces.
C28_StoredIsWhatWasValidated ==
    savedInfo # JNull
    => LET username == StringOr(savedInfo, <<"u", "s", "e", "r", "n", "a", "m", "e">>)
           job == StringOr(savedInfo, <<"j", "o", "b">>)
       IN  /\ TestUSERNAME(username)
           /\ Len(job) >= 2 /\ Len(job) <= 50
           /\ \A i \in 1..Len(job) : job[i] \in Letters \cup {" "}
           /\ storage = setItem(JSONStringify(savedInfo))

\* C29: each time the edit dialog is opened for an existing user, its
\* username and job-title fields hold the current profile, also after an
\* earlier edit was typed and then cancelled or dismissed.
C29_EditDialogShowsStoredProfile ==
    (uOp = "edit" /\ IsOpen("edit") /\ storage.present /\ WellFormedRecord(storage.text))
    => form.edit.data = [username |-> StringOr(user, <<"u", "s", "e", "r", "n", "a", "m", "e">>),
                         jobTitle |-> StringOr(user, <<"j", "o", "b">>)]

(***************************************************************************)
(* Claim about UserProvider's loading (specification SpecUserFair).        *)
(***************************************************************************)
\* C30: a session starts with isLoading true and user null; isLoading
\* becomes false eventually, whatever 'user-info' holds; within the session
\* it never becomes true again; a stored profile is the user in the very step
\* that ends loading, and after that step the user changes by a save only.
C30_LoadingLifecycle ==
    /\ (isLoading = TRUE /\ user = JNull)
    /\ [](uOp = "reload" => (isLoading /\ user = JNull))
    /\ isLoading ~> ~isLoading
    /\ [][(~isLoading /\ uOp' # "reload") => ~isLoading']_vars
    /\ [][(isLoading /\ ~isLoading')
          => /\ storage.present /\ WellFormedRecord(storage.text)
                => (user' = JSONParse(storage.text).val /\ Truthy(user'))
             /\ ~storage.present => user' = JNull
             /\ (storage.present /\ ~JSONParse(storage.text).ok) => user' = JNull]_vars
    /\ [][(~isLoading /\ user' # user) => uOp' \in {"saved", "reload"}]_vars

\* Loading has just ended on a stored profile, which is the user.
C30_Witness ==
    /\ uOp = "load"
    /\ ~isLoading
    /\ savedInfo = JNull
    /\ storage = setItem(JSONStringify(UserInfo(<<"a", "b", "c">>, <<"d", "e", "v">>)))
    /\ user = UserInfo(<<"a", "b", "c">>, <<"d", "e", "v">>)

\* C27: URL/state synchronisation of InformationPage settles.  Once the user
\* and the browser stop changing page, perPage and the URL (only pushed
\* navigations land from then on), the controller reaches for good a state with
\* no navigation in flight in which page and perPage are the URL's values.
Quiescent ==
    /\ pendingNav = <<>>
    /\ SameState(page, parseInt(GetOr(searchParams, "page", <<"1">>)))
    /\ SameState(perPage, parseInt(GetOr(searchParams, "perPage", <<"1", "2">>)))

====
